---- MODULE Spec2Model ----
(***************************************************************************)
(* A model of the Civic SIP client: src/index.js (newClient,               *)
(* makeAuthorizationHeader, verifyAndDecrypt, exchangeCode) and             *)
(* src/lib/jwt.js (createToken, verify, decode, createCivicExt).            *)
(*                                                                         *)
(* JavaScript runs a function to completion between two awaits, so every   *)
(* action below is one such run: ExchangeCode is the synchronous part of   *)
(* exchangeCode up to its await, Fulfil/Reject is the transport settling   *)
(* the promise, Resume is the continuation after the await.  The order of  *)
(* the calls made inside one run is kept in a log.                         *)
(*                                                                         *)
(* Cryptography is symbolic: a signature names the key, the algorithm and  *)
(* the claims it was made over; an HMAC names its key and its message; a   *)
(* ciphertext names its key and its clear text.                            *)
(***************************************************************************)
EXTENDS Integers, Sequences, FiniteSets, TLC

VARIABLES
    config,          \* the client's config object (closure of newClient)
    hostedServices,  \* hostedServices.SIPHostedService (closure of newClient)
    now,             \* the wall clock, in seconds
    issued,          \* number of uuids drawn so far (uuidV4's entropy)
    calls,           \* the exchangeCode invocations, by invocation order
    probe            \* last direct application of an exported function

vars == <<config, hostedServices, now, issued, calls, probe>>

(***************************************************************************)
(* Bounds of the model.                                                    *)
(***************************************************************************)
NumCalls == 2
MaxTicks == 1
MaxProbeTokens == 1

CallIds == 1..NumCalls

(***************************************************************************)
(* Program constants.                                                      *)
(***************************************************************************)
ALGO == "ES256"
JWT_EXPIRATION == [count |-> 3, unit |-> "m"]        \* the string '3m'
GracePeriodSeconds == 60
HttpOk == 200
DefaultBaseUrl == "https://api.civic.com/sip/"
ServiceHexpub == "civic-pub"

TickSeconds == GracePeriodSeconds \div 2

(***************************************************************************)
(* Keys.  PubOf pairs each private key with its public key; only the       *)
(* service holds the private key of hostedServices.hexpub.                 *)
(***************************************************************************)
PubOf(prv) ==
    CASE prv = "civic-prv" -> ServiceHexpub
      [] prv = "app-prv"   -> "app-pub"
      [] OTHER             -> "other-pub"

(***************************************************************************)
(* JavaScript values.  An Error is a record; a property that is undefined  *)
(* is a field that is absent.                                              *)
(***************************************************************************)
Error(msg) == [name |-> "Error", message |-> msg]
TypeError(msg) == [name |-> "TypeError", message |-> msg]
Has(obj, key) == key \in DOMAIN obj
Range(s) == {s[i] : i \in DOMAIN s}

(***************************************************************************)
(* src/lib/jwt.js                                                          *)
(***************************************************************************)

\* timestamp.add(now, expiresIn) resolves a duration such as '3m' to seconds:
\* a count times the length of its unit.  A plain number of seconds is the
\* count with unit "s".
UnitSeconds(unit) ==
    CASE unit = "s" -> 1
      [] unit = "m" -> 60
      [] unit = "h" -> 3600

\* A variant that drops the unit: '3m' taken as 3 seconds.
Duration_NoUnit(expiresIn) == expiresIn.count

Duration(expiresIn) == expiresIn.count * UnitSeconds(expiresIn.unit)

\* rs.jws.JWS.sign: the compact token, as its three parts.
JwsSign(header, content, prvKeyHex) ==
    [header  |-> header,
     payload |-> content,
     sig     |-> [by |-> prvKeyHex, alg |-> header.alg, over |-> content]]

\* exports.createToken; t is timestamp.now(), jti is uuidV4().
createToken(issuer, audience, subject, expiresIn, payload, prvKeyHex, t, jti) ==
    LET until   == t + Duration(expiresIn)
        content == [jti |-> jti, iat |-> t, exp |-> until, iss |-> issuer,
                    aud |-> audience, sub |-> subject, data |-> payload]
        header  == [alg |-> ALGO, typ |-> "JWT"]
    IN  JwsSign(header, content, prvKeyHex)

\* lodash merge on two arrays: the source's elements replace the
\* destination's index by index, the destination's other elements stay.
MergeArray(objValue, srcValue) ==
    LET n == IF Len(objValue) > Len(srcValue) THEN Len(objValue) ELSE Len(srcValue)
    IN  [i \in 1..n |-> IF i <= Len(srcValue) THEN srcValue[i] ELSE objValue[i]]

\* lodash merge(object, source) on option objects: the destination object
\* itself is assigned to and returned; "alg" is the one array-valued key.
merge(object, source) ==
    [k \in DOMAIN object \cup DOMAIN source |->
        IF ~Has(source, k) THEN object[k]
        ELSE IF ~Has(object, k) THEN source[k]
        ELSE IF k = "alg" THEN MergeArray(object[k], source[k])
        ELSE source[k]]

\* Whether the token's signature is one made with the private key of pubKey,
\* under the header's algorithm, over the claims the token carries.
SignatureValid(token, pubKey) ==
    /\ PubOf(token.sig.by) = pubKey
    /\ token.sig.alg = token.header.alg
    /\ token.sig.over = token.payload

\* rs.jws.JWS.verifyJWT(token, pubKey, acceptField) at time t: the algorithm
\* is one of acceptField.alg, the token is inside its time window widened
\* by the grace period (0 when none is given), the signature is valid.
verifyJWT(token, pubKey, acceptField, t) ==
    LET g == IF Has(acceptField, "gracePeriod") THEN acceptField.gracePeriod ELSE 0
    IN  /\ token.header.alg \in Range(acceptField.alg)
        /\ t <= token.payload.exp + g
        /\ t >= token.payload.iat - g
        /\ SignatureValid(token, pubKey)

\* exports.verify: ret is the value returned, options is the object handed
\* to verifyJWT, which is the caller's own object after the merge.
verify(token, pubhex, acceptable, t) ==
    LET options == merge(acceptable, [alg |-> <<ALGO>>])
    IN  [ret |-> verifyJWT(token, pubhex, options, t), options |-> options]

\* exports.decode
decode(token) == [headerObj |-> token.header, payloadObj |-> token.payload]

\* json-stable-stringify of the request body {authToken: ...}.
StableStringify(body) == <<"{", "authToken", ":", body.authToken, "}">>

\* exports.createCivicExt: base64 of HmacSHA256(stringify(body), secret).
createCivicExt(body, clientAccessSecret) ==
    LET bodyStr    == StableStringify(body)
        hmacBuffer == [hmac |-> "SHA256", msg |-> bodyStr, key |-> clientAccessSecret]
    IN  [base64 |-> hmacBuffer]

(***************************************************************************)
(* src/lib/basicCrypto (AES keyed by the application secret).              *)
(***************************************************************************)
Encrypt(clear, secret) == [cipher |-> "AES", clear |-> clear, key |-> secret]

\* decrypt gives the clear text of a ciphertext made with the same secret
\* and fails on anything else.
decrypt(cipherText, secret) ==
    IF Has(cipherText, "cipher") /\ cipherText.key = secret
    THEN [ok |-> TRUE, value |-> cipherText.clear]
    ELSE [ok |-> FALSE, error |-> Error("Malformed UTF-8 data")]

(***************************************************************************)
(* src/index.js: newClient                                                 *)
(***************************************************************************)

\* The config objects a caller may pass; api is the optional base URL.
ClientInputs ==
    { [appId |-> "app1", appSecret |-> "secret1", prvKey |-> "app-prv"],
      [appId |-> "app1", appSecret |-> "secret1", prvKey |-> "app-prv",
       api |-> "https://dev.civic.com/sip"] }

EndsWithSlash(url) == url \in {DefaultBaseUrl, "https://dev.civic.com/sip/"}

\* The closure newClient builds: config with env defaulted, and the hosted
\* service record with the base URL overridden by config.api.
newClient(input) ==
    [config |-> IF Has(input, "env") THEN input
                ELSE [k \in DOMAIN input \cup {"env"} |->
                        IF k = "env" THEN "prod" ELSE input[k]],
     hostedServices |->
        [base_url |-> IF ~Has(input, "api") THEN DefaultBaseUrl
                      ELSE IF EndsWithSlash(input.api) THEN input.api
                      ELSE input.api \o "/",
         hexpub   |-> ServiceHexpub,
         tokenType |-> "JWT"]]

(***************************************************************************)
(* src/index.js: makeAuthorizationHeader, verifyAndDecrypt                 *)
(***************************************************************************)

\* A variant that keys the extension with the private key.
makeAuthorizationHeader_WrongSecret(targetPath, targetMethod, requestBody, t, jti) ==
    LET jwtToken  == createToken(config.appId, hostedServices.base_url, config.appId,
                                 JWT_EXPIRATION,
                                 [method |-> targetMethod, path |-> targetPath],
                                 config.prvKey, t, jti)
        extension == createCivicExt(requestBody, config.prvKey)
    IN  [scheme |-> "Civic ", token |-> jwtToken, sep |-> ".", extension |-> extension]

\* 'Civic' + ' ' + jwtToken + '.' + extension, as its parts.
makeAuthorizationHeader(targetPath, targetMethod, requestBody, t, jti) ==
    LET jwtToken  == createToken(config.appId, hostedServices.base_url, config.appId,
                                 JWT_EXPIRATION,
                                 [method |-> targetMethod, path |-> targetPath],
                                 config.prvKey, t, jti)
        extension == createCivicExt(requestBody, config.appSecret)
    IN  [scheme |-> "Civic ", token |-> jwtToken, sep |-> ".", extension |-> extension]

\* A variant without the grace period.
VerifyOptions_NoGrace == [gracePeriod |-> 0]

\* The options literal verifyAndDecrypt passes to jwtjs.verify.
VerifyOptions == [gracePeriod |-> GracePeriodSeconds]

\* A variant that returns the data claim as it is, encrypted or not.
verifyAndDecrypt_NoDecrypt(payload, t) ==
    LET token   == payload.data
        v       == verify(token, hostedServices.hexpub, VerifyOptions, t)
        decodedToken == decode(token)
        base    == [isValid |-> v.ret, passed |-> VerifyOptions, options |-> v.options]
    IN  IF ~v.ret
        THEN [outcome |-> [kind |-> "thrown",
                           error |-> Error("JWT Token containing encrypted data could not be verified")],
              log |-> <<"verify">>, info |-> base]
        ELSE [outcome |-> [kind |-> "returned", value |-> decodedToken.payloadObj.data],
              log |-> <<"verify", "decode">>, info |-> base]

\* A variant that does not stop on an invalid token.
verifyAndDecrypt_NoCheck(payload, t) ==
    LET token   == payload.data
        v       == verify(token, hostedServices.hexpub, VerifyOptions, t)
        decodedToken == decode(token)
        clearText    == decodedToken.payloadObj.data
        d       == decrypt(decodedToken.payloadObj.data, config.appSecret)
        base    == [isValid |-> v.ret, passed |-> VerifyOptions, options |-> v.options]
    IN  IF payload.encrypted
        THEN [outcome |-> IF d.ok THEN [kind |-> "returned", value |-> d.value]
                          ELSE [kind |-> "thrown", error |-> d.error],
              log |-> <<"verify", "decode", "decrypt">>, info |-> base]
        ELSE [outcome |-> [kind |-> "returned", value |-> clearText],
              log |-> <<"verify", "decode">>, info |-> base]

\* verifyAndDecrypt(payload) at time t.  outcome is what the call returns or
\* throws, log the calls it made in order, isValid what verify returned,
\* passed/options the options object before and after verify.
verifyAndDecrypt(payload, t) ==
    LET token   == payload.data
        v       == verify(token, hostedServices.hexpub, VerifyOptions, t)
        isValid == v.ret
        decodedToken == decode(token)
        clearText    == decodedToken.payloadObj.data
        d       == decrypt(decodedToken.payloadObj.data, config.appSecret)
        base    == [isValid |-> isValid, passed |-> VerifyOptions, options |-> v.options]
    IN  IF ~isValid
        THEN [outcome |-> [kind |-> "thrown",
                           error |-> Error("JWT Token containing encrypted data could not be verified")],
              log |-> <<"verify">>, info |-> base]
        ELSE IF payload.encrypted
        THEN [outcome |-> IF d.ok THEN [kind |-> "returned", value |-> d.value]
                          ELSE [kind |-> "thrown", error |-> d.error],
              log |-> <<"verify", "decode", "decrypt">>, info |-> base]
        ELSE [outcome |-> [kind |-> "returned", value |-> clearText],
              log |-> <<"verify", "decode">>, info |-> base]

(***************************************************************************)
(* src/index.js: exchangeCode                                              *)
(***************************************************************************)

\* The synchronous part, up to the await: the body, the credential and the
\* request handed to apiGatewayClient.makeRequest.
BuildRequest(jwtToken, t, jti) ==
    LET body       == [authToken |-> jwtToken]
        authHeader == makeAuthorizationHeader("scopeRequest/authCode", "POST", body, t, jti)
    IN  [verb |-> "POST",
         path |-> "/scopeRequest/authCode",
         headers |-> [Accept |-> "*/*", Authorization |-> authHeader],
         body |-> body]

\* A variant that swallows the error.
CatchBlock_Swallow(error) == [thrown |-> <<>>, errorObj |-> <<>>]

\* The catch block: errorObj = new Error('...' + error.data && error.data.message).
\* '...' + error.data is never empty, so the argument is error.data.message,
\* and reading it throws a TypeError when error.data is undefined.
CatchBlock(error) ==
    IF ~Has(error, "data")
    THEN [thrown |-> <<TypeError("Cannot read property 'message' of undefined")>>,
          errorObj |-> <<>>]
    ELSE [thrown |-> <<>>,
          errorObj |-> <<Error(IF Has(error.data, "message") THEN error.data.message ELSE "")>>]

\* A variant that takes only the 4xx and 5xx statuses as failures.
StatusNotOk_ErrorsOnly(response) == response.status >= 400

\* response.status != 200
StatusNotOk(response) == response.status # HttpOk

\* The end of the function: if (errorObj) throw errorObj; otherwise the
\* promise resolves with undefined.
FunctionEnd(errorObj) ==
    IF Len(errorObj) > 0
    THEN [kind |-> "thrown", error |-> errorObj[1]]
    ELSE [kind |-> "undefined"]

\* A throw that leaves the catch block, or else the end of the function.
AfterCatch(c) ==
    IF Len(c.thrown) > 0 THEN [kind |-> "thrown", error |-> c.thrown[1]]
    ELSE FunctionEnd(c.errorObj)

\* The continuation of exchangeCode after the await, at time t.
ExchangeResume(settlement, t) ==
    IF settlement.state = "rejected"
    THEN [outcome |-> AfterCatch(CatchBlock(settlement.reason)), log |-> <<"catch">>]
    ELSE IF StatusNotOk(settlement.response)
    THEN [outcome |-> FunctionEnd(<<Error("Error exchanging code for data: ")>>),
          log |-> <<>>]
    ELSE LET r == verifyAndDecrypt(settlement.response.data, t)
         IN  IF r.outcome.kind = "returned"
             THEN [outcome |-> r.outcome, log |-> r.log, info |-> r.info]
             ELSE [outcome |-> AfterCatch(CatchBlock(r.outcome.error)),
                   log |-> r.log \o <<"catch">>, info |-> r.info]

(***************************************************************************)
(* The environment: the hosted service's responses and the transport.      *)
(***************************************************************************)
Codes == {"codeA", "codeB"}
UserData == [json |-> "alice"]

\* An assertion as the service (or someone else) may issue it: signed with
\* key under algorithm alg, valid from iat to exp.
ServiceToken(alg, key, data, iat, exp) ==
    JwsSign([alg |-> alg, typ |-> "JWT"],
            [jti |-> 0, iat |-> iat, exp |-> exp, iss |-> "civic-sip-hosted-service",
             aud |-> config.appId, sub |-> config.appId, data |-> data],
            key)

Ttl == Duration(JWT_EXPIRATION)

\* The response bodies of the exchange flow.  The service issued them at
\* time 0, or so long before that they expired TickSeconds, or one second
\* more than the grace period, before time 0.
EnvelopeOf(kind) ==
    CASE kind = "plain" ->
           [data |-> ServiceToken(ALGO, "civic-prv", UserData, 0, Ttl),
            encrypted |-> FALSE]
      [] kind = "cipher" ->
           [data |-> ServiceToken(ALGO, "civic-prv", Encrypt(UserData, config.appSecret), 0, Ttl),
            encrypted |-> TRUE]
      [] kind = "cipherUnflagged" ->
           [data |-> ServiceToken(ALGO, "civic-prv", Encrypt(UserData, config.appSecret), 0, Ttl),
            encrypted |-> FALSE]
      [] kind = "badCipher" ->
           [data |-> ServiceToken(ALGO, "civic-prv", Encrypt(UserData, "secret2"), 0, Ttl),
            encrypted |-> TRUE]
      [] kind = "forged" ->
           [data |-> ServiceToken(ALGO, "mallory-prv", Encrypt(UserData, config.appSecret), 0, Ttl),
            encrypted |-> TRUE]
      [] kind = "expiredInGrace" ->
           [data |-> ServiceToken(ALGO, "civic-prv", UserData,
                                  0 - TickSeconds - Ttl, 0 - TickSeconds),
            encrypted |-> FALSE]
      [] kind = "expired" ->
           [data |-> ServiceToken(ALGO, "civic-prv", UserData,
                                  0 - GracePeriodSeconds - 1 - Ttl, 0 - GracePeriodSeconds - 1),
            encrypted |-> FALSE]

EnvelopeKinds ==
    {"plain", "cipher", "cipherUnflagged", "badCipher", "forged", "expiredInGrace", "expired"}

\* What the transport may resolve with: status 200 with any of the bodies,
\* or another status with a body that would unwrap.
Responses ==
    {[status |-> HttpOk, data |-> EnvelopeOf(kind)] : kind \in EnvelopeKinds}
    \cup {[status |-> 201, data |-> EnvelopeOf("plain")],
          [status |-> 403, data |-> EnvelopeOf("cipher")]}

\* What the transport may reject with: a response object with a message, a
\* response object without one, an Error of the network layer (no data).
Rejections ==
    { [status |-> 403, data |-> [message |-> "Forbidden"]],
      [status |-> 500, data |-> [body |-> "oops"]],
      [name |-> "Error", message |-> "Network Error"] }

(***************************************************************************)
(* Actions.                                                                *)
(***************************************************************************)
Init ==
    /\ \E input \in ClientInputs :
          /\ config = newClient(input).config
          /\ hostedServices = newClient(input).hostedServices
    /\ now = 0
    /\ issued = 0
    /\ calls = [c \in CallIds |-> [pc |-> "idle"]]
    /\ probe = [op |-> "none"]

\* A caller invokes exchangeCode(code): the function runs up to its await.
ExchangeCode(c, code) ==
    /\ calls[c].pc = "idle"
    /\ IF c = 1 THEN TRUE ELSE calls[c - 1].pc # "idle"
    /\ calls' = [calls EXCEPT ![c] =
                    [pc |-> "awaiting", code |-> code, jti |-> issued + 1,
                     request |-> BuildRequest(code, now, issued + 1),
                     log |-> <<"createToken", "createCivicExt", "makeRequest">>]]
    /\ issued' = issued + 1
    /\ UNCHANGED <<config, hostedServices, now, probe>>

\* The transport resolves the promise with a response.  The locals of the
\* synchronous part (body, authHeader, the request) are not read again; jti
\* names the assertion that was sent.
Fulfil(c, response) ==
    /\ calls[c].pc = "awaiting"
    /\ calls' = [calls EXCEPT ![c] =
                    [pc |-> "settled", jti |-> calls[c].jti, log |-> calls[c].log,
                     settlement |-> [state |-> "fulfilled", response |-> response]]]
    /\ UNCHANGED <<config, hostedServices, now, issued, probe>>

\* The transport rejects the promise.
Reject(c, reason) ==
    /\ calls[c].pc = "awaiting"
    /\ calls' = [calls EXCEPT ![c] =
                    [pc |-> "settled", jti |-> calls[c].jti, log |-> calls[c].log,
                     settlement |-> [state |-> "rejected", reason |-> reason]]]
    /\ UNCHANGED <<config, hostedServices, now, issued, probe>>

\* The continuation of exchangeCode runs to the end of the function.
Resume(c) ==
    /\ calls[c].pc = "settled"
    /\ LET r == ExchangeResume(calls[c].settlement, now)
       IN  calls' = [calls EXCEPT ![c] =
                        [pc |-> "done", jti |-> calls[c].jti,
                         settlement |-> calls[c].settlement,
                         log |-> calls[c].log \o r.log,
                         at |-> now,
                         result |-> r]]
    /\ UNCHANGED <<config, hostedServices, now, issued, probe>>

\* Time passes.
Tick ==
    /\ now < MaxTicks * TickSeconds
    /\ now' = now + TickSeconds
    /\ UNCHANGED <<config, hostedServices, issued, calls, probe>>

Next ==
    \/ \E c \in CallIds, code \in Codes : ExchangeCode(c, code)
    \/ \E c \in CallIds, response \in Responses : Fulfil(c, response)
    \/ \E c \in CallIds, reason \in Rejections : Reject(c, reason)
    \/ \E c \in CallIds : Resume(c)
    \/ Tick

Spec == Init /\ [][Next]_vars

(***************************************************************************)
(* Direct applications of the exported functions (jwt.createToken,         *)
(* jwt.verify, client.verifyAndDecrypt) and of makeAuthorizationHeader, on *)
(* inputs drawn from bounded sets, at any time around a token's window.    *)
(***************************************************************************)
EmptyObject == [k \in {} |-> TRUE]

\* Tokens valid from 0 to Ttl: by algorithm, signing key and data claim,
\* and two tokens altered after signing.
ProbeTokens ==
    LET signed == {ServiceToken(alg, key, data, 0, Ttl) :
                      alg \in {ALGO, "ES384"},
                      key \in {"civic-prv", "mallory-prv"},
                      data \in {UserData, Encrypt(UserData, config.appSecret),
                                Encrypt(UserData, "secret2")}}
        good   == ServiceToken(ALGO, "civic-prv", UserData, 0, Ttl)
    IN  signed \cup {[good EXCEPT !.payload.data = [json |-> "mallory"]],
                     [good EXCEPT !.header.alg = "ES384"]}

\* The times around the window [0, Ttl] and around it widened by the grace
\* period.
ProbeTimes ==
    {0 - GracePeriodSeconds - 1, 0 - GracePeriodSeconds, 0 - 1, 0,
     Ttl, Ttl + 1, Ttl + TickSeconds, Ttl + GracePeriodSeconds,
     Ttl + GracePeriodSeconds + 1}

\* The options a caller of verify may pass (undefined counts as {}).
ProbeOptions ==
    {EmptyObject,
     [gracePeriod |-> GracePeriodSeconds],
     [alg |-> <<"ES384">>],
     [alg |-> <<"HS256", "ES384">>],
     [gracePeriod |-> GracePeriodSeconds, alg |-> <<"none", "ES384">>]}

ProbeDurations ==
    {JWT_EXPIRATION, [count |-> 1, unit |-> "h"], [count |-> 0, unit |-> "s"],
     [count |-> 0 - 1, unit |-> "s"]}

InitJwt ==
    /\ \E input \in ClientInputs :
          /\ config = newClient(input).config
          /\ hostedServices = newClient(input).hostedServices
    /\ now \in ProbeTimes
    /\ issued = 0
    /\ calls = [c \in CallIds |-> [pc |-> "idle"]]
    /\ probe = [op |-> "none"]

ProbeVerify(token, acceptable) ==
    /\ probe' = [op |-> "verify", token |-> token, acceptable |-> acceptable, at |-> now,
                 res |-> verify(token, hostedServices.hexpub, acceptable, now)]
    /\ UNCHANGED <<config, hostedServices, now, issued, calls>>

ProbeVerifyAndDecrypt(payload) ==
    /\ probe' = [op |-> "verifyAndDecrypt", payload |-> payload, at |-> now,
                 res |-> verifyAndDecrypt(payload, now)]
    /\ UNCHANGED <<config, hostedServices, now, issued, calls>>

ProbeCreateToken(expiresIn) ==
    /\ issued < MaxProbeTokens
    /\ issued' = issued + 1
    /\ probe' = [op |-> "createToken", expiresIn |-> expiresIn, at |-> now,
                 res |-> createToken(config.appId, hostedServices.base_url, config.appId,
                                     expiresIn, UserData, config.prvKey, now, issued + 1)]
    /\ UNCHANGED <<config, hostedServices, now, calls>>

ProbeMakeAuthorizationHeader(code) ==
    /\ issued < MaxProbeTokens
    /\ issued' = issued + 1
    /\ probe' = [op |-> "makeAuthorizationHeader", at |-> now,
                 res |-> makeAuthorizationHeader("scopeRequest/authCode", "POST",
                                                 [authToken |-> code], now, issued + 1)]
    /\ UNCHANGED <<config, hostedServices, now, calls>>

NextJwt ==
    \/ \E token \in ProbeTokens, acceptable \in ProbeOptions : ProbeVerify(token, acceptable)
    \/ \E token \in ProbeTokens, encrypted \in BOOLEAN :
          ProbeVerifyAndDecrypt([data |-> token, encrypted |-> encrypted])
    \/ \E expiresIn \in ProbeDurations : ProbeCreateToken(expiresIn)
    \/ \E code \in Codes : ProbeMakeAuthorizationHeader(code)

SpecJwt == InitJwt /\ [][NextJwt]_vars

(***************************************************************************)
(* Properties of the exported functions (checked under SpecJwt).           *)
(***************************************************************************)
Applied(op) == probe.op = op

\* A token signed by the service under ES256 and not altered since.
CorrectlySigned(token) ==
    token.header.alg = ALGO /\ SignatureValid(token, hostedServices.hexpub)

InWindow(token, t, g) ==
    token.payload.iat - g <= t /\ t <= token.payload.exp + g

GraceOf(acceptable) ==
    IF Has(acceptable, "gracePeriod") THEN acceptable.gracePeriod ELSE 0

\* C1: verifyAndDecrypt runs verify on envelope.data first; decode and decrypt
\* happen only after verify returned true; when verify returns false the call
\* throws, having neither decoded nor decrypted, and returns no payload.
C1_VerifyBeforeDecrypt ==
    Applied("verifyAndDecrypt") =>
        LET r  == probe.res
            ok == verify(probe.payload.data, hostedServices.hexpub,
                         [gracePeriod |-> GracePeriodSeconds], probe.at).ret
        IN  /\ r.log[1] = "verify"
            /\ r.info.isValid = ok
            /\ \A i \in DOMAIN r.log :
                  r.log[i] \in {"decode", "decrypt"} => ok /\ i > 1
            /\ ~ok => /\ r.outcome.kind = "thrown"
                      /\ r.log = <<"verify">>

\* An encrypted envelope whose assertion does not verify was rejected.
C1_Witness ==
    /\ Applied("verifyAndDecrypt")
    /\ probe.payload.encrypted
    /\ ~probe.res.info.isValid
    /\ probe.res.outcome.kind = "thrown"

\* C5: for a correctly signed ES256 assertion, verify with grace period g
\* (0 when none is supplied) returns true exactly when
\* iat - g <= now <= exp + g, and verifyAndDecrypt applies g = 60 seconds.
C5_GraceWindow ==
    /\ Applied("verify") /\ CorrectlySigned(probe.token) =>
          (probe.res.ret <=> InWindow(probe.token, probe.at, GraceOf(probe.acceptable)))
    /\ Applied("verifyAndDecrypt") /\ CorrectlySigned(probe.payload.data) =>
          (probe.res.info.isValid <=>
              /\ probe.payload.data.payload.iat - 60 <= probe.at
              /\ probe.at <= probe.payload.data.payload.exp + 60)

\* verifyAndDecrypt accepted an assertion that expired 30 seconds before.
C5_Witness ==
    /\ Applied("verifyAndDecrypt")
    /\ CorrectlySigned(probe.payload.data)
    /\ probe.at = probe.payload.data.payload.exp + 30
    /\ probe.res.info.isValid
    /\ probe.res.outcome.kind = "returned"

\* C6: whatever options the caller supplies, verify returns true only for a
\* token whose header names ES256, and the algorithm list handed to the
\* underlying check is exactly <<ES256>>.
C6_OnlyES256 ==
    Applied("verify") =>
        /\ probe.res.ret => probe.token.header.alg = ALGO
        /\ probe.res.options.alg = <<ALGO>>

\* The seconds each probed duration stands for.
SecondsOf(expiresIn) ==
    CASE expiresIn = [count |-> 3, unit |-> "m"]     -> 180
      [] expiresIn = [count |-> 1, unit |-> "h"]     -> 3600
      [] expiresIn = [count |-> 0, unit |-> "s"]     -> 0
      [] expiresIn = [count |-> 0 - 1, unit |-> "s"] -> 0 - 1

\* C9 (as amended): every assertion createToken produces has iat equal to
\* the time of issuance and exp = iat + ttl, hence exp > iat whenever
\* ttl > 0; every assertion makeAuthorizationHeader builds has
\* exp = iat + 180 seconds.
C9_ExpIsIatPlusTtl ==
    /\ Applied("createToken") =>
          LET claims == probe.res.payload
              ttl    == SecondsOf(probe.expiresIn)
          IN  /\ claims.iat = probe.at
              /\ claims.exp = claims.iat + ttl
              /\ ttl > 0 => claims.exp > claims.iat
    /\ Applied("makeAuthorizationHeader") =>
          LET claims == probe.res.token.payload
          IN  /\ claims.iat = probe.at
              /\ claims.exp = claims.iat + 180
              /\ claims.exp > claims.iat

\* createToken issued an assertion with the three-minute lifetime.
C9_Witness ==
    /\ Applied("createToken")
    /\ probe.expiresIn = JWT_EXPIRATION
    /\ probe.res.payload.exp = probe.res.payload.iat + 180

\* C9 (as stated): every assertion createToken produces has exp = iat + ttl
\* and exp > iat.
C9_ExpAfterIat ==
    Applied("createToken") =>
        /\ probe.res.payload.exp = probe.res.payload.iat + SecondsOf(probe.expiresIn)
        /\ probe.res.payload.exp > probe.res.payload.iat

(***************************************************************************)
(* Properties of exchangeCode (checked under Spec).                        *)
(***************************************************************************)
Started(c) == calls[c].pc # "idle"
Awaiting(c) == calls[c].pc = "awaiting"
Settled(c) == calls[c].pc = "settled"
Done(c) == calls[c].pc = "done"

\* How the transport ended for a call that has settled.
Rejected(c) == calls[c].settlement.state = "rejected"
StatusOf(c) == calls[c].settlement.response.status
EnvelopeIn(c) == calls[c].settlement.response.data
TransportFailed(c) == IF Rejected(c) THEN TRUE ELSE StatusOf(c) # 200
Answered200(c) == IF Rejected(c) THEN FALSE ELSE StatusOf(c) = 200

\* Whether the assertion of a 200 response verified when the call resumed.
Verified(c) ==
    verify(EnvelopeIn(c).data, hostedServices.hexpub,
           [gracePeriod |-> GracePeriodSeconds], calls[c].at).ret

Occurrences(log, event) == Cardinality({i \in DOMAIN log : log[i] = event})

\* C2: when the transport rejects or answers with a status other than 200,
\* exchangeCode throws, never having run verify (nor decode, nor decrypt),
\* and returns no user data.
C2_NoUnwrapOnFailure ==
    \A c \in CallIds :
        Done(c) /\ TransportFailed(c) =>
            /\ calls[c].result.outcome.kind = "thrown"
            /\ Range(calls[c].log) \cap {"verify", "decode", "decrypt"} = {}

\* A 403 response whose body would unwrap ended in an error.
C2_Witness ==
    \E c \in CallIds :
        /\ Done(c)
        /\ ~Rejected(c)
        /\ StatusOf(c) = 403
        /\ calls[c].result.outcome.kind = "thrown"

\* C3: the error exchangeCode throws when the status is 200 and the
\* assertion does not verify is never the error it throws for a transport
\* failure or a status other than 200.
C3_DistinctErrors ==
    \A c1, c2 \in CallIds :
        /\ Done(c1) /\ Answered200(c1) /\ ~Verified(c1)
        /\ Done(c2) /\ TransportFailed(c2)
        => calls[c1].result.outcome # calls[c2].result.outcome

\* C4: on status 200 with an assertion that verifies, exchangeCode returns
\* the data claim unchanged when encrypted is false, without calling
\* decrypt, and what decrypt gives for the data claim and appSecret when
\* encrypted is true.
C4_ReturnsUnwrapped ==
    \A c \in CallIds :
        Done(c) /\ Answered200(c) /\ Verified(c) =>
            LET env   == EnvelopeIn(c)
                claim == env.data.payload.data
                out   == calls[c].result.outcome
            IN  /\ ~env.encrypted =>
                      /\ out = [kind |-> "returned", value |-> claim]
                      /\ "decrypt" \notin Range(calls[c].log)
                /\ env.encrypted =>
                      LET d == decrypt(claim, config.appSecret)
                      IN  /\ "decrypt" \in Range(calls[c].log)
                          /\ d.ok => out = [kind |-> "returned", value |-> d.value]
                          /\ out.kind = "returned" => d.ok

\* An encrypted data claim came back as its clear text.
C4_Witness ==
    \E c \in CallIds :
        /\ Done(c) /\ Answered200(c) /\ Verified(c)
        /\ EnvelopeIn(c).encrypted
        /\ calls[c].result.outcome = [kind |-> "returned", value |-> UserData]

\* C7: the credential of every call is "Civic " + assertion + "." + extension,
\* the assertion signed with the application's key with iss = sub = appId,
\* aud = the base URL and data = {method: POST, path: scopeRequest/authCode},
\* the extension the HMAC under appSecret of the body {authToken: code} that
\* the request carries; no two calls send the same assertion.
C7_CredentialPerCall ==
    /\ \A c \in CallIds :
          Awaiting(c) =>
              LET req  == calls[c].request
                  cred == req.headers.Authorization
                  body == [authToken |-> calls[c].code]
              IN  /\ cred.scheme = "Civic " /\ cred.sep = "."
                  /\ cred.token.header.alg = "ES256"
                  /\ SignatureValid(cred.token, PubOf(config.prvKey))
                  /\ cred.token.payload.iss = config.appId
                  /\ cred.token.payload.sub = config.appId
                  /\ cred.token.payload.aud = hostedServices.base_url
                  /\ cred.token.payload.data =
                        [method |-> "POST", path |-> "scopeRequest/authCode"]
                  /\ cred.token.payload.jti = calls[c].jti
                  /\ req.body = body
                  /\ cred.extension =
                        [base64 |-> [hmac |-> "SHA256",
                                     msg |-> <<"{", "authToken", ":", calls[c].code, "}">>,
                                     key |-> config.appSecret]]
    /\ \A c1, c2 \in CallIds :
          Started(c1) /\ Started(c2) /\ c1 # c2 => calls[c1].jti # calls[c2].jti

\* Two calls with the same code are in flight, each with its own credential.
C7_Witness ==
    \E c1, c2 \in CallIds :
        /\ c1 # c2 /\ Awaiting(c1) /\ Awaiting(c2)
        /\ calls[c1].code = calls[c2].code
        /\ calls[c1].request.headers.Authorization
              # calls[c2].request.headers.Authorization

\* What holds of every call at every moment: one transport invocation, made
\* after the credential was built and before anything else; a finished call
\* has returned a payload or thrown an error.
OneLinearExchange(c) ==
    /\ Started(c) =>
          /\ Occurrences(calls[c].log, "makeRequest") = 1
          /\ SubSeq(calls[c].log, 1, 3) = <<"createToken", "createCivicExt", "makeRequest">>
    /\ Done(c) =>
          /\ calls[c].result.outcome.kind \in {"returned", "thrown"}
          /\ calls[c].result.outcome.kind = "returned" =>
                calls[c].log = <<"createToken", "createCivicExt", "makeRequest">>
                                \o SubSeq(<<"verify", "decode", "decrypt">>, 1, Len(calls[c].log) - 3)

\* C8: every call builds, sends once and then either unwraps or fails; once
\* the transport has settled, the continuation run at any later time ends
\* with a returned payload or a thrown error and never with neither, and
\* its one step finishes the call; a call only moves forward, so a finished
\* call takes no further step and the transport is never invoked again (no
\* retry).
C8_LinearExchange ==
    /\ [](\A c \in CallIds :
            /\ OneLinearExchange(c)
            /\ Settled(c) =>
                  ExchangeResume(calls[c].settlement, now).outcome.kind
                      \in {"returned", "thrown"})
    /\ [][\A c \in CallIds :
            /\ calls'[c] # calls[c] =>
                  \/ ~Started(c) /\ Awaiting(c)'
                  \/ Awaiting(c) /\ Settled(c)'
                  \/ Settled(c) /\ Done(c)'
            /\ Started(c) => Occurrences(calls'[c].log, "makeRequest") = 1]_vars

\* A call whose transport rejected ended in a thrown error after one send.
C8_Witness ==
    \E c \in CallIds :
        /\ Done(c) /\ Rejected(c)
        /\ calls[c].result.outcome.kind = "thrown"
        /\ Occurrences(calls[c].log, "makeRequest") = 1

\* C10: no invocation changes the client configuration or the options
\* object it passes to verify.
C10_NothingModified ==
    /\ \E input \in ClientInputs :
          /\ config = newClient(input).config
          /\ hostedServices = newClient(input).hostedServices
    /\ \A c \in CallIds :
          Done(c) /\ Has(calls[c].result, "info") =>
              calls[c].result.info.options = calls[c].result.info.passed

====
